---------------------------- MODULE Spec2Model ----------------------------
(***************************************************************************)
(* Crypto-Signal: the order planner (app/bot.py), the indicator engine     *)
(* (app/indicators.py), the rule bots and the consensus aggregator         *)
(* (app/bots.py) and the insight scorer (app/signals.py).                  *)
(*                                                                         *)
(* Numbers.  Python floats are modelled as decimals: a record [m, k]       *)
(* stands for m / 10^k (k may be negative), kept normalised (m carries no  *)
(* trailing zero).  Indicator columns use a fixed-point grid instead, see  *)
(* the indicator section.                                                  *)
(***************************************************************************)
EXTENDS Integers, Sequences, FiniteSets, TLC

VARIABLES
    insights_df,   \* planner input: rows [symbol, score] in ranked order
    market_df,     \* planner input: rows [symbol, current_price]
    plan_call,     \* arguments of the build_order_plan calls made so far
    orders,        \* frame returned by the last build_order_plan call
    feature_row,   \* scorer input: one market feature row
    sentiment_value, \* scorer input: the fear-and-greed scalar
    insight_log,   \* the Insights returned by generate_ai_insight, in call order
    feed,          \* the market data source: shape of the series it serves
    ohlcv,         \* the OHLCV frame of the last build_asset_snapshot call
    indicators,    \* with_indicators(ohlcv): the enriched frame, or its exception
    evals,         \* each bot's evaluate() on the enriched frame
    bot_signals,   \* run_bot_suite's frame, or its exception
    summary,       \* aggregate_symbol_score(bot_signals)
    signal_log,    \* history: [bot, score, confidence] of every signal emitted
    agg_input,     \* aggregator input: a frame of bot signals
    agg_output,    \* aggregator result for agg_input
    window,        \* stochastic input at float precision: bars [high, low, close]
    stoch_latest,   \* the latest row's %K of stochastic(window), or its exception
    universe,      \* batch input: the market rows [symbol, shape of its OHLCV series]
    batch,          \* what build_market_insights returned, or the exception it ended with
    prices_wrap,   \* _volatility input: the sparkline record of a market row
    volatility_score \* what _volatility returned for prices_wrap

plan_vars == <<insights_df, market_df, plan_call, orders>>

insight_vars == <<feature_row, sentiment_value, insight_log>>

snapshot_vars == <<feed, ohlcv, indicators, evals, bot_signals, summary, signal_log>>

aggregate_vars == <<agg_input, agg_output>>

stochastic_vars == <<window, stoch_latest>>

batch_vars == <<universe, batch>>

volatility_vars == <<prices_wrap, volatility_score>>

vars == <<plan_vars, insight_vars, snapshot_vars, aggregate_vars, stochastic_vars, batch_vars, volatility_vars>>

-----------------------------------------------------------------------------
(* Decimal arithmetic                                                      *)

RECURSIVE Pow10(_)
Pow10(n) == IF n <= 0 THEN 1 ELSE 10 * Pow10(n - 1)

Min(a, b) == IF a <= b THEN a ELSE b

Max(a, b) == IF a >= b THEN a ELSE b

RECURSIVE Norm(_)
Norm(x) ==
    IF x.m = 0 THEN [m |-> 0, k |-> 0]
    ELSE IF x.m % 10 = 0 THEN Norm([m |-> x.m \div 10, k |-> x.k - 1])
    ELSE x

D(m, k) == Norm([m |-> m, k |-> k])

DNeg(a) == [m |-> -a.m, k |-> a.k]

DMul(a, b) == D(a.m * b.m, a.k + b.k)

\* mantissa of a on the scale 10^-k, k >= a.k
OnScale(a, k) == IF a.m = 0 THEN 0 ELSE a.m * Pow10(k - a.k)

DAdd(a, b) ==
    LET k == Max(a.k, b.k) IN D(OnScale(a, k) + OnScale(b, k), k)

DSub(a, b) == DAdd(a, DNeg(b))

\* a < b for a, b > 0, without widening the smaller scale past 32 bits
PosLess(a, b) ==
    IF a.k = b.k THEN a.m < b.m
    ELSE IF a.k < b.k
         THEN LET d == b.k - a.k IN
              IF d >= 10 THEN FALSE ELSE a.m <= (b.m - 1) \div Pow10(d)
         ELSE LET d == a.k - b.k IN
              IF d >= 10 THEN TRUE ELSE b.m > a.m \div Pow10(d)

DLess(a, b) ==
    IF a.m <= 0 \/ b.m <= 0
    THEN IF a.m < 0 /\ b.m < 0 THEN PosLess(DNeg(b), DNeg(a))
         ELSE (a.m < 0 /\ b.m >= 0) \/ (a.m = 0 /\ b.m > 0)
    ELSE PosLess(a, b)

DLeq(a, b) == ~DLess(b, a)

\* Python max(a, b): b only when it is strictly greater
DMax(a, b) == IF DLess(a, b) THEN b ELSE a

\* num / den rounded to the nearest integer, ties to even (q, den > 0)
RoundDiv(num, den) ==
    LET q == num \div den
        r == num % den
    IN  IF 2 * r > den \/ (2 * r = den /\ q % 2 = 1) THEN q + 1 ELSE q

\* Python round(x, n) for x >= 0
DRound(x, n) ==
    IF x.k <= n THEN x
    ELSE IF x.k - n >= 10 THEN D(0, 0)
    ELSE D(RoundDiv(x.m, Pow10(x.k - n)), n)

\* long division: the quotient of (q * den + r) * 10^steps by den, rounded
RECURSIVE DivDigits(_, _, _, _)
DivDigits(q, r, den, steps) ==
    IF r = 0 THEN [m |-> q, shift |-> steps]
    ELSE IF steps = 0
         THEN [m |-> IF 2 * r > den \/ (2 * r = den /\ q % 2 = 1) THEN q + 1 ELSE q,
               shift |-> 0]
    ELSE DivDigits(q * 10 + (r * 10) \div den, (r * 10) % den, den, steps - 1)

\* round(a / b, n) for a >= 0, b > 0
DDivRound(a, b, n) ==
    LET e == b.k - a.k + n      \* a/b = (a.m / b.m) * 10^e * 10^-n
        q0 == a.m \div b.m
        r0 == a.m % b.m
    IN  IF e >= 0
        THEN LET res == DivDigits(q0, r0, b.m, e) IN D(res.m, n - res.shift)
        ELSE D(RoundDiv(a.m, b.m * Pow10(-e)), n)

-----------------------------------------------------------------------------
(* The parts of the program a specification does not exercise stay idle    *)

PlanIdle ==
    /\ insights_df = <<>>
    /\ market_df = <<>>
    /\ plan_call = <<>>
    /\ orders = <<>>

InsightIdle ==
    /\ feature_row = [symbol |-> "btc", trend_strength |-> D(0, 0),
                      volume_to_mcap |-> D(0, 0), volatility_score |-> D(0, 0)]
    /\ sentiment_value = D(50, 0)
    /\ insight_log = <<>>

SnapshotIdle ==
    /\ feed = [wick |-> 0, kind |-> "none", turned |-> FALSE]
    /\ ohlcv = <<>>
    /\ indicators = [raised |-> "no", rows |-> <<>>]
    /\ evals = <<>>
    /\ bot_signals = [raised |-> "no", frame |-> <<>>]
    /\ summary = <<>>
    /\ signal_log = {}

StochasticIdle ==
    /\ window = <<>>
    /\ stoch_latest = <<>>

BatchIdle ==
    /\ universe = <<>>
    /\ batch = <<>>

VolatilityIdle ==
    /\ prices_wrap = [wrap |-> "None", has_price |-> FALSE, price |-> <<>>]
    /\ volatility_score = <<>>

AggregateIdle ==
    /\ agg_input = <<>>
    /\ agg_output = <<>>

-----------------------------------------------------------------------------
(* Order planner: app/bot.py                                               *)

\* scores are held in hundredths: Insight.score is round(score, 2)
ScoreScale == 100

\* str.lower() on the symbols of the model
Lower(sym) ==
    CASE sym = "BTC" -> "btc"
      [] sym = "ETH" -> "eth"
      [] sym = "SOL" -> "sol"
      [] OTHER -> sym

\* BOT_PRESETS["Swing Smart"]
SwingSmart ==
    [timeframe |-> "4h", risk_per_trade |-> D(125, 2), max_positions |-> 3,
     stop_loss_pct |-> D(4, 0), take_profit_pct |-> D(9, 0),
     min_signal_score |-> 58 * ScoreScale]

\* a caller's preset: risk 1.0%, stop 2.0%, target 2.0%
EvenPreset ==
    [timeframe |-> "15m", risk_per_trade |-> D(1, 0), max_positions |-> 4,
     stop_loss_pct |-> D(2, 0), take_profit_pct |-> D(2, 0),
     min_signal_score |-> 62 * ScoreScale]

\* a caller's preset with no stop distance
FlatPreset ==
    [timeframe |-> "5m", risk_per_trade |-> D(5, 1), max_positions |-> 6,
     stop_loss_pct |-> D(0, 0), take_profit_pct |-> D(11, 1),
     min_signal_score |-> 65 * ScoreScale]

Presets == {SwingSmart, EvenPreset, FlatPreset}

AccountSizes == {D(10000, 0), D(250, 0)}

MaxInsights == 3

MaxMarket == 1

MaxPositions == 2

InsightRows ==
    [symbol : {"BTC", "eth"}, score : {60 * ScoreScale, 70 * ScoreScale}]

MarketRows ==
    { [symbol |-> "btc", current_price |-> D(100, 0)],
      [symbol |-> "eth", current_price |-> D(0, 0)],
      [symbol |-> "eth", current_price |-> D(125, 8)],
      [symbol |-> "eth", current_price |-> D(25, 8)],
      [symbol |-> "btc", current_price |-> D(-5, 0)],
      [symbol |-> "BTC", current_price |-> D(150, 0)] }

SeqsUpTo(S, n) == UNION {[1..k -> S] : k \in 0..n}

\* the 1e-8 floor of unit_risk
Epsilon == D(1, 8)

\* DataFrame.head(n): the first n rows, or all but the last -n when n < 0
HeadRows(s, n) ==
    IF n >= 0 THEN SubSeq(s, 1, Min(n, Len(s)))
    ELSE SubSeq(s, 1, Max(Len(s) + n, 0))

\* market_df.set_index("symbol")["current_price"].to_dict(), then
\* float(price_map.get(symbol, 0.0)): the last row of that symbol wins
PriceLookupRaw(mkt, symbol) ==
    LET hits == {i \in 1..Len(mkt) : mkt[i].symbol = symbol} IN
    IF hits = {} THEN D(0, 0)
    ELSE mkt[CHOOSE i \in hits : \A j \in hits : j <= i].current_price

PriceLookup(mkt, symbol) == PriceLookupRaw(mkt, Lower(symbol))

\* mutant: the truncation is applied before the score filter
Tradable_HeadFirst(ins, preset, max_positions) ==
    LET Qualifies(r) == r.score >= preset.min_signal_score
    IN  SelectSeq(HeadRows(ins, max_positions), Qualifies)

Tradable(ins, preset, max_positions) ==
    LET Qualifies(r) == r.score >= preset.min_signal_score
    IN  HeadRows(SelectSeq(ins, Qualifies), max_positions)

StopPrice(entry, preset) ==
    DMul(entry, DSub(D(1, 0), DMul(preset.stop_loss_pct, D(1, 2))))

TargetPrice(entry, preset) ==
    DMul(entry, DAdd(D(1, 0), DMul(preset.take_profit_pct, D(1, 2))))

RiskAmount(account_size, preset) ==
    DMul(account_size, DMul(preset.risk_per_trade, D(1, 2)))

\* mutant: the unit risk is taken from the stop as emitted (6 decimals)
UnitRisk_RoundedStop(entry, stop) == DMax(DSub(entry, DRound(stop, 6)), Epsilon)

\* mutant: the unit risk has no 1e-8 floor
UnitRisk_Unfloored(entry, stop) == DSub(entry, stop)

UnitRisk(entry, stop) == DMax(DSub(entry, stop), Epsilon)

\* the dict appended for one tradable row; index is set by OrderRows
OrderOf(row, entry, preset, account_size, execution_mode) ==
    LET stop == StopPrice(entry, preset)
        target == TargetPrice(entry, preset)
        risk_amount == RiskAmount(account_size, preset)
        unit_risk == UnitRisk(entry, stop)
    IN  [symbol |-> row.symbol,
         signal_score |-> row.score,
         entry |-> DRound(entry, 6),
         stop_loss |-> DRound(stop, 6),
         take_profit |-> DRound(target, 6),
         position_size_units |-> DDivRound(risk_amount, unit_risk, 4),
         action |-> "BUY",
         execution_mode |-> execution_mode]

\* the loop over tradable.iterrows(): the orders list, in emission order
RECURSIVE OrderList(_, _, _, _, _)
OrderList(tradable, mkt, preset, account_size, execution_mode) ==
    IF tradable = <<>> THEN <<>>
    ELSE LET row == Head(tradable)
             entry == PriceLookup(mkt, row.symbol)
             rest == OrderList(Tail(tradable), mkt, preset, account_size, execution_mode)
         IN  IF DLeq(entry, D(0, 0)) THEN rest
             ELSE <<OrderOf(row, entry, preset, account_size, execution_mode)>> \o rest

\* pd.DataFrame(orders): the rows get the index 0, 1, ... in emission order
Framed(rows) ==
    [i \in 1..Len(rows) |-> [index |-> i - 1, row |-> rows[i]]]

IsDescending(frame) ==
    \A i \in 1..(Len(frame) - 1) :
        frame[i].row.signal_score >= frame[i + 1].row.signal_score

\* mutant: the frame is returned in emission order
SortValues_Unsorted(frame) == {frame}

\* sort_values("signal_score", ascending=False) with the default kind,
\* quicksort, which is not a stable sort: every descending arrangement of
\* the rows is a possible result
SortValues(frame) ==
    { [i \in 1..Len(frame) |-> frame[p[i]]] : p \in
        { q \in Permutations(1..Len(frame)) :
            IsDescending([i \in 1..Len(frame) |-> frame[q[i]]]) } }

\* the frames build_order_plan may return
build_order_plan(ins, mkt, preset, account_size, max_positions, execution_mode) ==
    LET tradable == Tradable(ins, preset, max_positions)
        rows == OrderList(tradable, mkt, preset, account_size, execution_mode)
    IN  IF tradable = <<>> THEN {<<>>}
        ELSE IF rows = <<>> THEN {<<>>}
        ELSE SortValues(Framed(rows))

InitPlan ==
    /\ insights_df \in SeqsUpTo(InsightRows, MaxInsights)
    /\ market_df \in SeqsUpTo(MarketRows, MaxMarket)
    /\ plan_call = <<>>
    /\ orders = <<>>
    /\ InsightIdle /\ SnapshotIdle /\ AggregateIdle /\ StochasticIdle /\ BatchIdle /\ VolatilityIdle

PlanOrders ==
    /\ plan_call = <<>>
    /\ \E preset \in Presets, account_size \in AccountSizes,
          max_positions \in 0..MaxPositions :
          /\ plan_call' = <<[preset |-> preset, account_size |-> account_size,
                             max_positions |-> max_positions]>>
          /\ orders' \in build_order_plan(insights_df, market_df, preset,
                                          account_size, max_positions, "Paper")
    /\ UNCHANGED <<insights_df, market_df, insight_vars, snapshot_vars, aggregate_vars, stochastic_vars, batch_vars, volatility_vars>>

NextPlan == PlanOrders

SpecPlan == InitPlan /\ [][NextPlan]_vars

-----------------------------------------------------------------------------
(* Properties of the order planner                                         *)

Planned == plan_call # <<>>

Call == plan_call[1]

DAbs(a) == IF a.m < 0 THEN DNeg(a) ELSE a

\* positions of the insights whose score reaches the preset's minimum
Qualifying == {i \in 1..Len(insights_df) :
                  insights_df[i].score >= Call.preset.min_signal_score}

\* the first max_positions of them, in the given order
Candidates == {i \in Qualifying :
                  Cardinality({j \in Qualifying : j < i}) < Call.max_positions}

\* the price the market table gives for the lower-cased symbol, if any
HasPositivePrice(i) ==
    \E r \in 1..Len(market_df) :
        /\ market_df[r].symbol = Lower(insights_df[i].symbol)
        /\ \A q \in (r + 1)..Len(market_df) : market_df[q].symbol # market_df[r].symbol
        /\ market_df[r].current_price.m > 0

Survivors == {i \in Candidates : HasPositivePrice(i)}

\* the n-th smallest member of a set of positions
NthOf(S, n) == CHOOSE i \in S : Cardinality({j \in S : j < i}) = n - 1

\* the order emitted k-th (frame index k - 1), wherever the sort put it
Emitted(k) == orders[CHOOSE j \in 1..Len(orders) : orders[j].index = k - 1]

\* C1: build_order_plan emits exactly one order per insight that is among
\* the first max_positions insights with score >= min_signal_score and has a
\* price > 0 under its lower-cased symbol; truncation precedes the price
\* check, unpriced candidates are skipped, nothing else is emitted, and the
\* result is empty when nothing qualifies or survives.
C1_OneOrderPerSurvivor ==
    Planned =>
        /\ Len(orders) = Cardinality(Survivors)
        /\ Len(orders) <= Call.max_positions
        /\ {orders[j].index : j \in 1..Len(orders)} = 0..(Len(orders) - 1)
        /\ \A k \in 1..Len(orders) :
              LET i == NthOf(Survivors, k)
                  o == Emitted(k).row
              IN  /\ o.symbol = insights_df[i].symbol
                  /\ o.signal_score = insights_df[i].score
                  /\ o.action = "BUY"
                  /\ PriceLookup(market_df, o.symbol).m > 0
        /\ (Survivors = {} => orders = <<>>)

\* C1 witness: an order is emitted while one candidate is skipped for its
\* price and one priced, qualifying insight is cut off by max_positions.
C1_Witness ==
    /\ Planned
    /\ Len(orders) >= 1
    /\ \E i \in Candidates : ~HasPositivePrice(i)
    /\ \E i \in Qualifying \ Candidates : HasPositivePrice(i)

\* the planner's quantities, restated from the claim for one entry price
ExactStop(e) == DSub(e, DMul(DMul(e, Call.preset.stop_loss_pct), D(1, 2)))

ExactTarget(e) == DAdd(e, DMul(DMul(e, Call.preset.take_profit_pct), D(1, 2)))

ExactRisk == DMul(DMul(Call.account_size, Call.preset.risk_per_trade), D(1, 2))

ExactUnitRisk(e) ==
    IF DLess(DSub(e, ExactStop(e)), D(1, 8)) THEN D(1, 8) ELSE DSub(e, ExactStop(e))

Within(a, b, tol) == DLeq(DAbs(DSub(a, b)), tol)

\* C2: every emitted order carries stop = e*(1 - stop_loss_pct/100),
\* target = e*(1 + take_profit_pct/100) and size = risk / max(e - stop, 1e-8)
\* with the unrounded stop (as emitted: 6 decimals for prices, 4 for the
\* size); account 10000, risk 1.0, stop 2.0, target 2.0, e = 100 gives
\* 98, 102, unit risk 2 and size 50.
C2_OrderArithmetic ==
    Planned =>
        \A j \in 1..Len(orders) :
            LET o == orders[j].row
                e == PriceLookup(market_df, o.symbol)
            IN  /\ Within(o.entry, e, D(5, 7))
                /\ Within(o.stop_loss, ExactStop(e), D(5, 7))
                /\ Within(o.take_profit, ExactTarget(e), D(5, 7))
                /\ Within(DMul(o.position_size_units, ExactUnitRisk(e)), ExactRisk,
                          DMul(ExactUnitRisk(e), D(5, 5)))
                /\ (Call.preset = EvenPreset /\ Call.account_size = D(10000, 0)
                      /\ e = D(100, 0)) =>
                        /\ o.stop_loss = D(98, 0)
                        /\ o.take_profit = D(102, 0)
                        /\ ExactUnitRisk(e) = D(2, 0)
                        /\ o.position_size_units = D(50, 0)

\* C2 witness: the worked example has been planned and sized at 50 units.
C2_Witness ==
    /\ Planned
    /\ Call.preset = EvenPreset
    /\ Call.account_size = D(10000, 0)
    /\ \E j \in 1..Len(orders) :
          /\ PriceLookup(market_df, orders[j].row.symbol) = D(100, 0)
          /\ orders[j].row.position_size_units = D(50, 0)

SortedDescending ==
    \A i \in 1..(Len(orders) - 1) :
        orders[i].row.signal_score >= orders[i + 1].row.signal_score

\* C3 (as amended): the returned orders are in non-increasing order of
\* signal_score and are exactly the emitted orders rearranged; orders of
\* equal score may come in either relative order.
C3_SortedRearrangement ==
    Planned =>
        /\ SortedDescending
        /\ \E rows \in {OrderList(Tradable(insights_df, Call.preset, Call.max_positions),
                                  market_df, Call.preset, Call.account_size, "Paper")} :
              /\ Len(rows) = Len(orders)
              /\ \A k \in 1..Len(rows) : Emitted(k).row = rows[k]

\* C3 witness: two orders of different scores were emitted in ascending
\* order and come back swapped.
C3_Witness ==
    /\ Planned
    /\ \E i, j \in 1..Len(orders) :
          /\ i < j
          /\ orders[i].index > orders[j].index
          /\ orders[i].row.signal_score > orders[j].row.signal_score

\* C3 (as stated): the order list is in non-increasing order of
\* signal_score and orders of equal score keep the relative order of their
\* insights (a stable sort).
C3_StableSort ==
    Planned =>
        /\ SortedDescending
        /\ \A i, j \in 1..Len(orders) :
              (i < j /\ orders[i].row.signal_score = orders[j].row.signal_score)
                  => orders[i].index < orders[j].index

-----------------------------------------------------------------------------
(* Insight scorer: app/signals.py                                          *)

\* str.upper() on the symbols of the model
Upper(sym) ==
    CASE sym = "btc" -> "BTC"
      [] sym = "eth" -> "ETH"
      [] sym = "sol" -> "SOL"
      [] OTHER -> sym

TrendValues == {D(-60, 0), D(0, 0), D(164, 2), D(1636, 2), D(60, 0)}

LiquidityValues == {D(0, 0), D(25, 3), D(15, 2)}

VolatilityValues == {D(0, 0), D(8, 0), D(20, 0), D(30, 0)}

SentimentValues == {D(0, 0), D(50, 0), D(100, 0)}

FeatureRows ==
    [symbol : {"btc"}, trend_strength : TrendValues,
     volume_to_mcap : LiquidityValues, volatility_score : VolatilityValues]

MaxCalls == 2

classify_confidence(score) ==
    IF DLeq(D(70, 0), score) THEN "High"
    ELSE IF DLeq(D(50, 0), score) THEN "Moderate"
    ELSE "Low"

\* score before the clamp: signals.py lines 33-34
RawScore(row, sentiment) ==
    LET trend == row.trend_strength
        liquidity == DMul(row.volume_to_mcap, D(100, 0))
        volatility == row.volatility_score
        base == DSub(DAdd(DAdd(D(50, 0), DMul(trend, D(11, 1))),
                          DMul(liquidity, D(12, 1))),
                     DMul(volatility, D(5, 1)))
    IN  DAdd(base, DMul(DSub(sentiment, D(50, 0)), D(3, 1)))

\* Python min(a, b): b only when it is strictly smaller
DMin(a, b) == IF DLess(b, a) THEN b ELSE a

\* mutant: the score is not clamped
ClampScore_None(score) == score

\* max(0, min(100, score))
ClampScore(score) == DMax(D(0, 0), DMin(D(100, 0), score))

ActionOf(score) ==
    IF DLeq(D(68, 0), score) THEN "Momentum Long Setup"
    ELSE IF DLeq(score, D(38, 0)) THEN "Defensive / Mean-Reversion Watch"
    ELSE "Range Trade / Breakout Watch"

RationaleOf(score) ==
    IF DLeq(D(68, 0), score)
    THEN "Trend and liquidity align; use staged entries and trail risk."
    ELSE IF DLeq(score, D(38, 0))
    THEN "Signal quality is weak; preserve capital and wait for confirmation."
    ELSE "Conditions are mixed; reduce size and define invalidation clearly."

RiskNoteOf(volatility) ==
    IF DLess(D(20, 0), volatility)
    THEN "High volatility: smaller size, wider stops, lower leverage."
    ELSE IF DLess(volatility, D(8, 0))
    THEN "Low volatility: monitor compression and breakout triggers."
    ELSE "Normal volatility: keep standard risk allocation."

generate_ai_insight(row, sentiment) ==
    LET score == ClampScore(RawScore(row, sentiment))
    IN  [symbol |-> Upper(row.symbol),
         score |-> DRound(score, 2),
         confidence |-> classify_confidence(score),
         action |-> ActionOf(score),
         rationale |-> RationaleOf(score),
         risk_note |-> RiskNoteOf(row.volatility_score)]

InitInsight ==
    /\ feature_row \in FeatureRows
    /\ sentiment_value \in SentimentValues
    /\ insight_log = <<>>
    /\ PlanIdle /\ SnapshotIdle /\ AggregateIdle /\ StochasticIdle /\ BatchIdle /\ VolatilityIdle

\* one call of generate_ai_insight on the row at hand
GenerateInsight ==
    /\ Len(insight_log) < MaxCalls
    /\ insight_log' = Append(insight_log, generate_ai_insight(feature_row, sentiment_value))
    /\ UNCHANGED <<feature_row, sentiment_value, plan_vars, snapshot_vars, aggregate_vars, stochastic_vars, batch_vars, volatility_vars>>

NextInsight == GenerateInsight

SpecInsight == InitInsight /\ [][NextInsight]_vars

-----------------------------------------------------------------------------
(* Properties of the insight scorer                                        *)

\* the claim's score in thousandths, from the inputs
FormulaMilli ==
    50000 + 11 * OnScale(feature_row.trend_strength, 2)
          + 120 * OnScale(feature_row.volume_to_mcap, 3)
          - 5 * OnScale(feature_row.volatility_score, 2)
          + 3 * (OnScale(sentiment_value, 2) - 5000)

ClampedMilli == IF FormulaMilli < 0 THEN 0
                ELSE IF FormulaMilli > 100000 THEN 100000 ELSE FormulaMilli

ReportedScore(n) == insight_log[n].score

\* C9: in every Insight the labels agree with the thresholds applied to its
\* own reported score: momentum-long iff score >= 68, defensive iff score <=
\* 38, range/breakout-watch otherwise; High iff score >= 70, Moderate iff
\* 50 <= score < 70, Low iff score < 50.
C9_LabelsMatchReportedScore ==
    \A n \in 1..Len(insight_log) :
        LET s == ReportedScore(n) IN
        /\ insight_log[n].action = "Momentum Long Setup" <=> DLeq(D(68, 0), s)
        /\ insight_log[n].action = "Defensive / Mean-Reversion Watch" <=> DLeq(s, D(38, 0))
        /\ insight_log[n].confidence = "High" <=> DLeq(D(70, 0), s)
        /\ insight_log[n].confidence = "Moderate" <=> (DLeq(D(50, 0), s) /\ DLess(s, D(70, 0)))
        /\ insight_log[n].confidence = "Low" <=> DLess(s, D(50, 0))

-----------------------------------------------------------------------------
(* Indicator engine: app/indicators.py                                     *)
(*                                                                         *)
(* A bar is [open, high, low, close, volume] in whole price and volume     *)
(* units.  A derived value is a cell: a float on a grid of 1/FP ("num"),   *)
(* float NaN ("nan") or pandas' pd.NA ("na").                              *)

FP == 1000

Num(v) == [t |-> "num", v |-> v]

NaN == [t |-> "nan", v |-> 0]

NA == [t |-> "na", v |-> 0]

IsNum(c) == c.t = "num"

RECURSIVE SumRange(_, _, _)
SumRange(f, lo, hi) == IF lo > hi THEN 0 ELSE f[lo] + SumRange(f, lo + 1, hi)

MinOver(f, lo, hi) == CHOOSE x \in {f[j] : j \in lo..hi} : \A j \in lo..hi : x <= f[j]

MaxOver(f, lo, hi) == CHOOSE x \in {f[j] : j \in lo..hi} : \A j \in lo..hi : x >= f[j]

RECURSIVE ISqrtSearch(_, _, _)
ISqrtSearch(n, lo, hi) ==
    IF lo >= hi THEN lo
    ELSE LET mid == (lo + hi + 1) \div 2 IN
         IF mid * mid <= n THEN ISqrtSearch(n, mid, hi) ELSE ISqrtSearch(n, lo, mid - 1)

ISqrt(n) == ISqrtSearch(n, 0, 46340)

\* a column of the frame, on the grid
Scaled(df, col) == [i \in 1..Len(df) |-> df[i][col] * FP]

\* Series.rolling(window=period, min_periods=period).mean()
RollingMean(series, period) ==
    [i \in 1..Len(series) |->
        IF i < period THEN NaN
        ELSE Num(SumRange(series, i - period + 1, i) \div period)]

\* Series.rolling(window=period, min_periods=period).std(), ddof = 1
RollingStd(series, period) ==
    [i \in 1..Len(series) |->
        IF i < period THEN NaN
        ELSE LET mean == SumRange(series, i - period + 1, i) \div period
                 sq == [j \in (i - period + 1)..i |->
                           (series[j] - mean) * (series[j] - mean)]
             IN  Num(ISqrt(SumRange(sq, i - period + 1, i) \div (period - 1)))]

\* Series.ewm(alpha=num/den, adjust=False).mean() over series[from..]: the
\* weighted values, seeded by the first observation
RECURSIVE EwmFold(_, _, _, _, _)
EwmFold(series, num, den, i, acc) ==
    IF i > Len(series) THEN acc
    ELSE LET w == IF acc = <<>> THEN series[i]
                  ELSE ((den - num) * acc[Len(acc)] + num * series[i]) \div den
         IN  EwmFold(series, num, den, i + 1, Append(acc, w))

sma(series, period) == RollingMean(series, period)

\* ewm(span=period, adjust=False): alpha = 2 / (period + 1), no min_periods
EmaValues(series, period) == EwmFold(series, 2, period + 1, 1, <<>>)

ema(series, period) ==
    LET w == EmaValues(series, period) IN [i \in 1..Len(series) |-> Num(w[i])]

\* mutant: the first period rows already count as period observations
RsiFirstDefined_Period(period) == period

\* first row (1-based) at which ewm(min_periods=period) has seen period
\* observations of series.diff(), whose first row is NaN
RsiFirstDefined(period) == period + 1

\* rsi: row 1 of delta is NaN and is no observation; avg_gain and avg_loss
\* are Wilder averages of the rows 2.., undefined before min_periods
\* observations; rs = avg_gain / avg_loss.replace(0, pd.NA);
\* 100 - 100 / (1 + rs) = 100 - 100 * avg_loss / (avg_gain + avg_loss)
rsi(series, period) ==
    LET n == Len(series)
        gain == [i \in 1..(n - 1) |-> Max(series[i + 1] - series[i], 0)]
        loss == [i \in 1..(n - 1) |-> -Min(series[i + 1] - series[i], 0)]
        avg_gain == EwmFold(gain, 1, period, 1, <<>>)
        avg_loss == EwmFold(loss, 1, period, 1, <<>>)
    IN  [i \in 1..n |->
            IF i < RsiFirstDefined(period) THEN NaN
            ELSE IF avg_loss[i - 1] = 0 THEN NA
            ELSE Num(100 * FP - (100 * FP * avg_loss[i - 1])
                                  \div (avg_gain[i - 1] + avg_loss[i - 1]))]

macd(series, fast, slow, signal) ==
    LET ef == EmaValues(series, fast)
        es == EmaValues(series, slow)
        macd_line == [i \in 1..Len(series) |-> ef[i] - es[i]]
        signal_line == EmaValues(macd_line, signal)
    IN  [i \in 1..Len(series) |->
            [macd |-> Num(macd_line[i]), signal |-> Num(signal_line[i]),
             hist |-> Num(macd_line[i] - signal_line[i])]]

bollinger_bands(series, period, std_dev) ==
    LET middle == sma(series, period)
        std == RollingStd(series, period)
    IN  [i \in 1..Len(series) |->
            IF IsNum(middle[i])
            THEN [bb_upper |-> Num(middle[i].v + std_dev * std[i].v),
                  bb_middle |-> middle[i],
                  bb_lower |-> Num(middle[i].v - std_dev * std[i].v)]
            ELSE [bb_upper |-> NaN, bb_middle |-> NaN, bb_lower |-> NaN]]

\* true range: the row maximum skips the NaN of close.shift() in row 1
TrueRange(df) ==
    [i \in 1..Len(df) |->
        IF i = 1 THEN (df[i].high - df[i].low) * FP
        ELSE FP * Max(df[i].high - df[i].low,
                      Max(IF df[i].high >= df[i - 1].close
                          THEN df[i].high - df[i - 1].close
                          ELSE df[i - 1].close - df[i].high,
                          IF df[i].low >= df[i - 1].close
                          THEN df[i].low - df[i - 1].close
                          ELSE df[i - 1].close - df[i].low))]

atr(df, period) == RollingMean(TrueRange(df), period)

\* stoch_k: 100 * (close - low_min) / (high_max - low_min).replace(0, pd.NA)
StochK(df, period) ==
    LET lows == [i \in 1..Len(df) |-> df[i].low]
        highs == [i \in 1..Len(df) |-> df[i].high]
    IN  [i \in 1..Len(df) |->
            IF i < period THEN NaN
            ELSE LET low_min == MinOver(lows, i - period + 1, i)
                     high_max == MaxOver(highs, i - period + 1, i)
                 IN  IF high_max - low_min = 0 THEN NA
                     ELSE Num((100 * FP * (df[i].close - low_min))
                                  \div (high_max - low_min))]

\* k.rolling(window=smooth, min_periods=smooth).mean() on a float column
StochD(k, smooth) ==
    [i \in 1..Len(k) |->
        IF i < smooth \/ \E j \in (i - smooth + 1)..i : ~IsNum(k[j]) THEN NaN
        ELSE Num(SumRange([j \in 1..Len(k) |-> k[j].v], i - smooth + 1, i) \div smooth)]

\* a zero range puts pd.NA in k and makes it an object column, on which
\* rolling raises DataError("No numeric types to aggregate")
StochasticRaises(df, period) ==
    \E i \in 1..Len(df) : StochK(df, period)[i] = NA

stochastic(df, period, smooth) ==
    LET k == StochK(df, period)
        d == StochD(k, smooth)
    IN  [i \in 1..Len(df) |-> [stoch_k |-> k[i], stoch_d |-> d[i]]]

\* mutant: a bar whose close did not move leaves the total unchanged
Direction_FlatIsZero(df, i) ==
    IF i = 1 THEN 0
    ELSE IF df[i].close > df[i - 1].close THEN 1
    ELSE IF df[i].close < df[i - 1].close THEN -1 ELSE 0

\* (close.diff().fillna(0) > 0).astype(int).replace({0: -1}), row 1 set to 0
Direction(df, i) ==
    IF i = 1 THEN 0
    ELSE IF df[i].close - df[i - 1].close > 0 THEN 1 ELSE -1

\* mutant: the volume is summed without its direction
obv_Unsigned(df) ==
    LET signed == [i \in 1..Len(df) |-> df[i].volume]
    IN  [i \in 1..Len(df) |-> Num(FP * SumRange(signed, 1, i))]

obv(df) ==
    LET signed == [i \in 1..Len(df) |-> Direction(df, i) * df[i].volume]
    IN  [i \in 1..Len(df) |-> Num(FP * SumRange(signed, 1, i))]

\* vwap: cumsum(tp * volume) / cumsum(volume).replace(0, pd.NA)
vwap(df) ==
    LET tpv == [i \in 1..Len(df) |->
                   ((FP * (df[i].high + df[i].low + df[i].close)) \div 3) * df[i].volume]
        vol == [i \in 1..Len(df) |-> df[i].volume]
    IN  [i \in 1..Len(df) |->
            IF SumRange(vol, 1, i) = 0 THEN NA
            ELSE Num(SumRange(tpv, 1, i) \div SumRange(vol, 1, i))]

\* with_indicators: the enriched frame, or the exception it ends with
with_indicators(df) ==
    IF StochasticRaises(df, 14)
    THEN [raised |-> "DataError", rows |-> <<>>]
    ELSE
    LET close == Scaled(df, "close")
        sma_20 == sma(close, 20)
        ema_20 == ema(close, 20)
        rsi_14 == rsi(close, 14)
        macd_df == macd(close, 12, 26, 9)
        bb == bollinger_bands(close, 20, 2)
        atr_14 == atr(df, 14)
        stoch == stochastic(df, 14, 3)
        obv_col == obv(df)
        vwap_col == vwap(df)
    IN  [raised |-> "no",
         rows |-> [i \in 1..Len(df) |->
            [open |-> Num(FP * df[i].open), high |-> Num(FP * df[i].high),
             low |-> Num(FP * df[i].low), close |-> Num(close[i]),
             volume |-> Num(FP * df[i].volume),
             sma_20 |-> sma_20[i], ema_20 |-> ema_20[i], rsi_14 |-> rsi_14[i],
             macd |-> macd_df[i].macd, signal |-> macd_df[i].signal,
             hist |-> macd_df[i].hist,
             bb_upper |-> bb[i].bb_upper, bb_middle |-> bb[i].bb_middle,
             bb_lower |-> bb[i].bb_lower,
             atr_14 |-> atr_14[i],
             stoch_k |-> stoch[i].stoch_k, stoch_d |-> stoch[i].stoch_d,
             obv |-> obv_col[i], vwap |-> vwap_col[i]]]]

-----------------------------------------------------------------------------
(* Rule bots and consensus: app/bots.py                                    *)

\* a > b on cells: pd.NA if either side is pd.NA, False if either is NaN
Gt(a, b) ==
    IF a.t = "na" \/ b.t = "na" THEN "na"
    ELSE IF IsNum(a) /\ IsNum(b) /\ a.v > b.v THEN "true" ELSE "false"

Lt(a, b) == Gt(b, a)

\* mutant: the labels' thresholds are exchanged
ConfidenceLabel_Swapped(score, high_at, moderate_at) ==
    IF score >= moderate_at /\ score < high_at THEN "High"
    ELSE IF score >= high_at THEN "Moderate" ELSE "Low"

\* "High" if score >= high_at else "Moderate" if score >= moderate_at else "Low"
ConfidenceLabel(score, high_at, moderate_at) ==
    IF score >= high_at THEN "High"
    ELSE IF score >= moderate_at THEN "Moderate" ELSE "Low"

\* round(max(0, min(100, score)), 2): the score is a whole number
ClampBotScore(score) == Max(0, Min(100, score))

\* the body shared by the three evaluate methods: `x if cond else y` raises
\* TypeError when cond is pd.NA ("boolean value of NA is ambiguous")
Evaluate(symbol, bot, conds, plus, minus, buy_at, high_at, reason) ==
    IF \E i \in 1..3 : conds[i] = "na"
    THEN [bot |-> bot, raised |-> "TypeError", signal |-> <<>>]
    ELSE LET amount == [i \in 1..3 |-> IF conds[i] = "true" THEN plus[i] ELSE -minus[i]]
             score == 50 + amount[1] + amount[2] + amount[3]
         IN  [bot |-> bot, raised |-> "no",
              signal |-> <<[symbol |-> symbol, bot |-> bot,
                            side |-> IF score >= buy_at THEN "BUY" ELSE "HOLD",
                            confidence |-> ConfidenceLabel(score, high_at, buy_at),
                            score |-> ClampBotScore(score),
                            reason |-> reason]>>]

TrendBot_evaluate(symbol, ind) ==
    LET row == ind[Len(ind)] IN
    Evaluate(symbol, "TrendBot",
             <<Gt(row.close, row.ema_20), Gt(row.macd, row.signal),
               Gt(row.rsi_14, Num(50 * FP))>>,
             <<12, 10, 8>>, <<10, 8, 6>>, 55, 70,
             "Trend-following EMA+MACD+RSI consensus")

MeanReversionBot_evaluate(symbol, ind) ==
    LET row == ind[Len(ind)] IN
    Evaluate(symbol, "MeanReversionBot",
             <<Lt(row.rsi_14, Num(35 * FP)), Lt(row.close, row.bb_lower),
               Lt(row.stoch_k, Num(20 * FP))>>,
             <<15, 12, 6>>, <<8, 7, 5>>, 60, 75,
             "Oversold reversion with Bollinger and Stochastic confirmation")

BreakoutBot_evaluate(symbol, ind) ==
    LET row == ind[Len(ind)]
        prev == IF Len(ind) > 1 THEN ind[Len(ind) - 1] ELSE row
    IN  Evaluate(symbol, "BreakoutBot",
                 <<Gt(row.close, row.bb_upper), Gt(row.volume, prev.volume),
                   Gt(row.close, row.vwap)>>,
                 <<14, 10, 8>>, <<6, 4, 5>>, 62, 76,
                 "Breakout momentum above bands with volume/VWAP confirmation")

\* the three bots, in the order run_bot_suite evaluates them
EvaluateAll(symbol, ind) ==
    <<TrendBot_evaluate(symbol, ind), MeanReversionBot_evaluate(symbol, ind),
      BreakoutBot_evaluate(symbol, ind)>>

IsDescendingBy(frame, col) ==
    \A i \in 1..(Len(frame) - 1) : frame[i].row[col] >= frame[i + 1].row[col]

\* sort_values(col, ascending=False), default kind (quicksort, not stable)
SortValuesBy(frame, col) ==
    { [i \in 1..Len(frame) |-> frame[p[i]]] : p \in
        { q \in Permutations(1..Len(frame)) :
            IsDescendingBy([i \in 1..Len(frame) |-> frame[q[i]]], col) } }

\* run_bot_suite: the first bot that raises ends the call; otherwise the
\* signals, sorted by score
run_bot_suite(symbol, ind) ==
    LET results == EvaluateAll(symbol, ind) IN
    IF \E i \in 1..3 : results[i].raised # "no"
    THEN {[raised |-> "TypeError", frame |-> <<>>]}
    ELSE {[raised |-> "no", frame |-> f] :
            f \in SortValuesBy(Framed([i \in 1..3 |-> results[i].signal[1]]), "score")}

\* the mean, as a float of 6 decimals
MeanScore(frame) ==
    DDivRound(D(SumRange([i \in 1..Len(frame) |-> frame[i].row.score], 1, Len(frame)), 0),
              D(Len(frame), 0), 6)

\* mutant: the empty frame is not special-cased and the mean is over 3 bots
aggregate_symbol_score_NoGuard(frame) ==
    [aggregate_score |->
         DDivRound(D(SumRange([i \in 1..Len(frame) |-> frame[i].row.score], 1, Len(frame)), 0),
                   D(3, 0), 6),
     buy_votes |-> D(Cardinality({i \in 1..Len(frame) : frame[i].row.side = "BUY"}), 0)]

aggregate_symbol_score(frame) ==
    IF frame = <<>> THEN [aggregate_score |-> D(0, 0), buy_votes |-> D(0, 0)]
    ELSE [aggregate_score |-> MeanScore(frame),
          buy_votes |-> D(Cardinality({i \in 1..Len(frame) : frame[i].row.side = "BUY"}), 0)]

-----------------------------------------------------------------------------
(* The per-asset snapshot: app/platform.py build_asset_snapshot, fed by a  *)
(* market data source that serves a series one bar longer at each call     *)

MaxBars == 21

StartPrice == 30

\* how a bar moves the close, and its volume
BarKinds ==
    { [name |-> "quiet", move |-> 0, volume |-> 0],
      [name |-> "flat", move |-> 0, volume |-> 1],
      [name |-> "up", move |-> 1, volume |-> 1],
      [name |-> "down", move |-> -1, volume |-> 1],
      [name |-> "surge", move |-> 1, volume |-> 2] }

Wicks == {0, 1}

\* the next bar: it opens at the previous close (the first at its own),
\* with a wick above the body
NextBar(series, kind, wick) ==
    LET open == IF series = <<>> THEN StartPrice + kind.move
                ELSE series[Len(series)].close
        close == IF series = <<>> THEN open ELSE open + kind.move
    IN  [open |-> open, high |-> Max(open, close) + wick, low |-> Min(open, close),
         close |-> close, volume |-> kind.volume]

InitSnapshot ==
    /\ feed \in [wick : Wicks, kind : {"none"}, turned : {FALSE}]
    /\ ohlcv = <<>>
    /\ indicators = [raised |-> "no", rows |-> <<>>]
    /\ evals = <<>>
    /\ bot_signals = [raised |-> "no", frame |-> <<>>]
    /\ summary = <<>>
    /\ signal_log = {}
    /\ PlanIdle /\ InsightIdle /\ AggregateIdle /\ StochasticIdle /\ BatchIdle /\ VolatilityIdle

\* build_asset_snapshot on the series grown by one bar of the given kind;
\* an exception of with_indicators or of a bot ends the call
Snapshot(kind) ==
    /\ Len(ohlcv) < MaxBars
    /\ feed.kind \in {"none", kind.name} \/ ~feed.turned
    /\ feed' = [feed EXCEPT !.kind = kind.name,
                            !.turned = @ \/ feed.kind \notin {"none", kind.name}]
    /\ ohlcv' = Append(ohlcv, NextBar(ohlcv, kind, feed.wick))
    /\ indicators' = with_indicators(ohlcv')
    /\ IF indicators'.raised # "no"
       THEN /\ evals' = <<>>
            /\ bot_signals' = [raised |-> indicators'.raised, frame |-> <<>>]
            /\ summary' = <<>>
       ELSE /\ evals' = EvaluateAll("BTC", indicators'.rows)
            /\ bot_signals' \in run_bot_suite("BTC", indicators'.rows)
            /\ summary' = IF bot_signals'.raised # "no" THEN <<>>
                          ELSE <<aggregate_symbol_score(bot_signals'.frame)>>
    /\ signal_log' = signal_log \cup
          {[bot |-> evals'[b].bot, score |-> evals'[b].signal[1].score,
            confidence |-> evals'[b].signal[1].confidence] :
              b \in {c \in 1..Len(evals') : evals'[c].raised = "no"}}
    /\ UNCHANGED <<plan_vars, insight_vars, aggregate_vars, stochastic_vars, batch_vars, volatility_vars>>

BuildAssetSnapshot == \E kind \in BarKinds : Snapshot(kind)

NextSnapshot == BuildAssetSnapshot

SpecSnapshot == InitSnapshot /\ [][NextSnapshot]_vars

-----------------------------------------------------------------------------
(* The aggregator on its own: any frame of bot signals, the empty one too  *)

MaxSignals == 3

SignalRows ==
    [bot : {"TrendBot"}, side : {"BUY", "HOLD"}, score : {0, 26, 62, 83, 100}]

InitAggregate ==
    /\ agg_input \in {Framed(rows) : rows \in SeqsUpTo(SignalRows, MaxSignals)}
    /\ agg_output = <<>>
    /\ PlanIdle /\ InsightIdle /\ SnapshotIdle /\ StochasticIdle /\ BatchIdle /\ VolatilityIdle

Aggregate ==
    /\ agg_output = <<>>
    /\ agg_output' = <<aggregate_symbol_score(agg_input)>>
    /\ UNCHANGED <<agg_input, plan_vars, insight_vars, snapshot_vars, stochastic_vars, batch_vars, volatility_vars>>

NextAggregate == Aggregate

SpecAggregate == InitAggregate /\ [][NextAggregate]_vars

-----------------------------------------------------------------------------
(* Properties of the bots, the aggregator and the windowed columns         *)

Enriched == indicators.raised = "no" /\ indicators.rows # <<>>

LastRow == indicators.rows[Len(indicators.rows)]

PrevRow == IF Len(indicators.rows) > 1
           THEN indicators.rows[Len(indicators.rows) - 1] ELSE LastRow

\* the rule table of the three bots on the latest row: for each rule the
\* cells compared, whether the first must exceed the second, and the amounts
RuleTable ==
    <<[bot |-> "TrendBot", buy_at |-> 55, high_at |-> 70,
       rules |-> <<[a |-> LastRow.close, b |-> LastRow.ema_20, plus |-> 12, minus |-> 10],
                   [a |-> LastRow.macd, b |-> LastRow.signal, plus |-> 10, minus |-> 8],
                   [a |-> LastRow.rsi_14, b |-> Num(50 * FP), plus |-> 8, minus |-> 6]>>],
      [bot |-> "MeanReversionBot", buy_at |-> 60, high_at |-> 75,
       rules |-> <<[a |-> Num(35 * FP), b |-> LastRow.rsi_14, plus |-> 15, minus |-> 8],
                   [a |-> LastRow.bb_lower, b |-> LastRow.close, plus |-> 12, minus |-> 7],
                   [a |-> Num(20 * FP), b |-> LastRow.stoch_k, plus |-> 6, minus |-> 5]>>],
      [bot |-> "BreakoutBot", buy_at |-> 62, high_at |-> 76,
       rules |-> <<[a |-> LastRow.close, b |-> LastRow.bb_upper, plus |-> 14, minus |-> 6],
                   [a |-> LastRow.volume, b |-> PrevRow.volume, plus |-> 10, minus |-> 4],
                   [a |-> LastRow.close, b |-> LastRow.vwap, plus |-> 8, minus |-> 5]>>]>>

RuleUndefined(r) == ~IsNum(r.a) \/ ~IsNum(r.b)

RuleHolds(r) == IsNum(r.a) /\ IsNum(r.b) /\ r.a.v > r.b.v

\* C4: on every enriched series, degenerate ones included, each bot's
\* evaluate() returns a BotSignal without raising, and every rule whose
\* indicator input is undefined contributes its negative-branch amount.
C4_BotsNeverRaise ==
    Enriched =>
        \A b \in 1..3 :
            /\ evals[b].raised = "no"
            /\ \E took \in [1..3 -> BOOLEAN] :
                  /\ \A i \in 1..3 : RuleUndefined(RuleTable[b].rules[i]) => ~took[i]
                  /\ evals[b].signal[1].score =
                        50 + SumRange([i \in 1..3 |->
                                 IF took[i] THEN RuleTable[b].rules[i].plus
                                 ELSE -RuleTable[b].rules[i].minus], 1, 3)

TableScore(b) ==
    50 + SumRange([i \in 1..3 |->
             IF RuleHolds(RuleTable[b].rules[i]) THEN RuleTable[b].rules[i].plus
             ELSE -RuleTable[b].rules[i].minus], 1, 3)

\* C5: each bot's result equals the rule table applied to the latest row:
\* the score is 50 plus the three amounts, the side is BUY iff the score
\* reaches the bot's buy threshold (55, 60, 62), the confidence is High from
\* the high threshold (70, 75, 76), Moderate from the buy threshold, else
\* Low; on a one-row series BreakoutBot's volume rule takes -4.
C5_RuleTable ==
    Enriched =>
        \A b \in 1..3 :
            /\ evals[b].raised = "no"
            /\ evals[b].signal # <<>>
            /\ LET sig == evals[b].signal[1]
                   t == TableScore(b)
               IN  /\ sig.bot = RuleTable[b].bot
                   /\ sig.score = t
                   /\ sig.side = "BUY" <=> t >= RuleTable[b].buy_at
                   /\ sig.side = "HOLD" <=> t < RuleTable[b].buy_at
                   /\ sig.confidence = "High" <=> t >= RuleTable[b].high_at
                   /\ sig.confidence = "Moderate" <=>
                          (t >= RuleTable[b].buy_at /\ t < RuleTable[b].high_at)
                   /\ sig.confidence = "Low" <=> t < RuleTable[b].buy_at
                   /\ (b = 3 /\ Len(ohlcv) = 1) =>
                          ~RuleHolds(RuleTable[3].rules[2])

LabelRank(label) ==
    CASE label = "Low" -> 0 [] label = "Moderate" -> 1 [] label = "High" -> 2

\* C6: every emitted BotSignal.score lies in [0,100], and for any two
\* signals of the same bot a higher score never has a lower confidence.
C6_ScoreRangeAndMonotoneLabels ==
    /\ \A b \in 1..Len(evals) :
          evals[b].raised = "no" =>
              (evals[b].signal[1].score >= 0 /\ evals[b].signal[1].score <= 100)
    /\ \A x, y \in signal_log :
          (x.bot = y.bot /\ x.score <= y.score)
              => LabelRank(x.confidence) <= LabelRank(y.confidence)

\* C6 witness: one bot has emitted a Low, a Moderate and a High signal.
C6_Witness ==
    \E x, y, z \in signal_log :
        /\ x.bot = y.bot /\ y.bot = z.bot
        /\ x.confidence = "Low" /\ y.confidence = "Moderate" /\ z.confidence = "High"
        /\ x.score < y.score /\ y.score < z.score

AggScores == [i \in 1..Len(agg_input) |-> agg_input[i].row.score]

\* C7: the aggregator returns aggregate_score 0.0 and buy_votes 0 for an
\* empty signal set; otherwise aggregate_score is the mean of the scores,
\* within [0,100], and buy_votes is the number of BUY sides, within
\* 0..number of signals.
C7_MeanAndVotes ==
    agg_output # <<>> =>
        LET out == agg_output[1]
            n == Len(agg_input)
            total == SumRange(AggScores, 1, n)
        IN  IF n = 0
            THEN out.aggregate_score = D(0, 0) /\ out.buy_votes = D(0, 0)
            ELSE /\ Within(DMul(out.aggregate_score, D(n, 0)), D(total, 0),
                           DMul(D(n, 0), D(5, 7)))
                 /\ DLeq(D(0, 0), out.aggregate_score)
                 /\ DLeq(out.aggregate_score, D(100, 0))
                 /\ out.buy_votes =
                        D(Cardinality({i \in 1..n : agg_input[i].row.side = "BUY"}), 0)
                 /\ DLeq(D(0, 0), out.buy_votes)
                 /\ DLeq(out.buy_votes, D(n, 0))

\* C7 witness: a mean that is no whole number, with one BUY vote of two.
C7_Witness ==
    /\ agg_output # <<>>
    /\ Len(agg_input) = 2
    /\ agg_output[1].aggregate_score = D(545, 1)
    /\ agg_output[1].buy_votes = D(1, 0)

\* the windowed columns and their periods
WindowedColumns ==
    { [col |-> "sma_20", period |-> 20], [col |-> "bb_upper", period |-> 20],
      [col |-> "bb_middle", period |-> 20], [col |-> "bb_lower", period |-> 20],
      [col |-> "rsi_14", period |-> 14], [col |-> "atr_14", period |-> 14],
      [col |-> "stoch_k", period |-> 14] }

\* undefined before row `first` (1-based), defined from it on; pd.NA past
\* that row is a zero denominator
DefinedFrom(col, first) ==
    \A i \in 1..Len(indicators.rows) :
        IF i < first THEN ~IsNum(indicators.rows[i][col])
        ELSE indicators.rows[i][col].t # "nan"

-----------------------------------------------------------------------------
(* Properties of the indicator columns                                     *)

\* the degenerate rows (1-based) of the series at hand
ZeroAvgLoss(i) ==
    i >= 15 /\ \A j \in 2..i : ohlcv[j].close >= ohlcv[j - 1].close

ZeroRange(i) ==
    i >= 14 /\ \A j, k \in (i - 13)..i : ohlcv[j].high = ohlcv[k].low

ZeroCumVolume(i) == \A j \in 1..i : ohlcv[j].volume = 0

\* C11: a degenerate denominator never raises and never yields a number:
\* rsi_14 is undefined where the average loss is 0, stoch_k where the
\* window's range is 0, vwap where the cumulative volume is 0.
C11_DegenerateNeverRaises ==
    ohlcv # <<>> =>
        /\ indicators.raised = "no"
        /\ Len(indicators.rows) = Len(ohlcv)
        /\ \A i \in 1..Len(indicators.rows) :
              /\ ZeroAvgLoss(i) => ~IsNum(indicators.rows[i].rsi_14)
              /\ ZeroRange(i) => ~IsNum(indicators.rows[i].stoch_k)
              /\ ZeroCumVolume(i) => ~IsNum(indicators.rows[i].vwap)

-----------------------------------------------------------------------------
(* The latest %K of stochastic() at float precision                        *)

\* binary64 (IEEE 754 double) arithmetic, round to nearest, ties to even.
\* A natural below 2^60 is three limbs <<l0, l1, l2>> = l0 + l1*2^20 + l2*2^40;
\* a positive double is [m |-> limbs of a 53-bit mantissa, e |-> exponent],
\* of value m * 2^e; zero has the mantissa <<0, 0, 0>>.
LimbBase == 1048576

MantBits == 53

RECURSIVE Pow2(_)
Pow2(k) == IF k = 0 THEN 1 ELSE 2 * Pow2(k - 1)

Carry(x0, x1, x2) ==
    LET t1 == x1 + x0 \div LimbBase
    IN  <<x0 % LimbBase, t1 % LimbBase, x2 + t1 \div LimbBase>>

LZero == <<0, 0, 0>>

LAdd(a, b) == Carry(a[1] + b[1], a[2] + b[2], a[3] + b[3])

LSub(a, b) == Carry(a[1] - b[1], a[2] - b[2], a[3] - b[3])

LTimes(a, n) == Carry(a[1] * n, a[2] * n, a[3] * n)

LLess(a, b) ==
    \/ a[3] < b[3]
    \/ a[3] = b[3] /\ a[2] < b[2]
    \/ a[3] = b[3] /\ a[2] = b[2] /\ a[1] < b[1]

IntBits(x) == CHOOSE k \in 0..31 : x < Pow2(k) /\ (k = 0 \/ x >= Pow2(k - 1))

LBits(a) ==
    IF a[3] # 0 THEN 40 + IntBits(a[3])
    ELSE IF a[2] # 0 THEN 20 + IntBits(a[2]) ELSE IntBits(a[1])

\* a * 2^k for 0 <= k <= 20, the product below 2^60
LShl(a, k) == IF k <= 10 THEN LTimes(a, Pow2(k)) ELSE LTimes(LTimes(a, Pow2(10)), Pow2(k - 10))

\* a \div 2^s for 0 <= s < 20
LShr(a, s) ==
    <<a[1] \div Pow2(s) + (a[2] % Pow2(s)) * Pow2(20 - s),
      a[2] \div Pow2(s) + (a[3] % Pow2(s)) * Pow2(20 - s),
      a[3] \div Pow2(s)>>

\* n * 2^e rounded to a double; inexact: n stands for a value a little above n
RoundDouble(n, e, inexact) ==
    IF n = LZero THEN [m |-> LZero, e |-> 0]
    ELSE IF LBits(n) <= MantBits
    THEN [m |-> LShl(n, MantBits - LBits(n)), e |-> e - (MantBits - LBits(n))]
    ELSE LET s == LBits(n) - MantBits
             kept == LShr(n, s)
             dropped == n[1] % Pow2(s)
             half == Pow2(s - 1)
             up == \/ dropped > half
                   \/ dropped = half /\ (inexact \/ kept[1] % 2 = 1)
             m == IF up THEN LAdd(kept, <<1, 0, 0>>) ELSE kept
         IN  IF LBits(m) > MantBits THEN [m |-> LShr(m, 1), e |-> e + s + 1]
             ELSE [m |-> m, e |-> e + s]

\* float.hex() 0x1.hhhhhhhhhhhhhp+exp: the mantissa's limbs and exp
Double(l2, l1, l0, exp) == [m |-> <<l0, l1, l2>>, e |-> exp - 52]

\* a - b for a >= b of exponents at most 6 apart
FSub(a, b) ==
    LET e == IF a.e < b.e THEN a.e ELSE b.e
    IN  RoundDouble(LSub(LShl(a.m, a.e - e), LShl(b.m, b.e - e)), e, FALSE)

FTimes(n, a) == RoundDouble(LTimes(a.m, n), a.e, FALSE)

\* long division in digits of DigitBits bits: the quotient of
\* r * 2^(DigitBits * steps) by b, for r < 2 * b, and whether it is inexact
DigitBits == 5

RECURSIVE Quotient(_, _, _, _)
Quotient(r, b, steps, q) ==
    LET d == CHOOSE x \in 0..(Pow2(DigitBits) - 1) :
                 ~LLess(r, LTimes(b, x)) /\ LLess(r, LTimes(b, x + 1))
        rem == LSub(r, LTimes(b, d))
        digits == LAdd(LTimes(q, Pow2(DigitBits)), <<d, 0, 0>>)
    IN  IF steps = 0 THEN [q |-> digits, inexact |-> rem # LZero]
        ELSE CHOOSE result \in
                 { Quotient(next, b, steps - 1, sofar) :
                       next \in {LTimes(rem, Pow2(DigitBits))}, sofar \in {digits} } : TRUE

\* 11 digits of 5 bits give the 55 bits below the leading one
FDiv(a, b) ==
    LET d == Quotient(a.m, b.m, 11, LZero)
    IN  RoundDouble(d.q, a.e - b.e - 11 * DigitBits, d.inexact)

FLess(a, b) ==
    IF a.m = LZero THEN b.m # LZero
    ELSE IF b.m = LZero THEN FALSE
    ELSE IF a.e + LBits(a.m) # b.e + LBits(b.m) THEN a.e + LBits(a.m) < b.e + LBits(b.m)
    ELSE LLess(a.m, b.m)

\* the window of stochastic(period=14)
WindowLen == 14

\* prices, as float.hex() prints them: 30.0, 30.07, 42.52, 45.86, 50.0,
\* 57.19, 61.3
FloatPrices ==
    { Double(7680, 0, 0, 4), Double(7697, 964689, 964690, 4),
      Double(5442, 587202, 587203, 5), Double(5870, 83886, 83886, 5),
      Double(6400, 0, 0, 5), Double(7320, 335544, 335544, 5),
      Double(7846, 419430, 419430, 5) }

FLeq(a, b) == ~FLess(b, a)

Hundred == Double(6400, 0, 0, 6)

LZeroDouble == [m |-> LZero, e |-> 0]

FMinOver(f) == CHOOSE x \in {f[j] : j \in DOMAIN f} : \A j \in DOMAIN f : FLeq(x, f[j])

FMaxOver(f) == CHOOSE x \in {f[j] : j \in DOMAIN f} : \A j \in DOMAIN f : FLeq(f[j], x)

\* the last row of stochastic(df) for a df of at least WindowLen bars:
\* k = 100 * (close - low_min) / (high_max - low_min).replace(0, pd.NA),
\* each operation rounded as binary64; a zero range ends in DataError
stochastic_latest(df) ==
    LET n == Len(df)
        low_min == FMinOver([j \in (n - WindowLen + 1)..n |-> df[j].low])
        high_max == FMaxOver([j \in (n - WindowLen + 1)..n |-> df[j].high])
        range == FSub(high_max, low_min)
        k == FDiv(FTimes(100, FSub(df[n].close, low_min)), range)
    IN  IF range.m = LZero THEN [raised |-> "DataError", stoch_k |-> <<>>]
        ELSE [raised |-> "no", stoch_k |-> <<k>>]

\* a window of equal bars with low <= close <= high
InitStochastic ==
    /\ \E low, close, high \in FloatPrices :
          /\ FLeq(low, close) /\ FLeq(close, high)
          /\ window = [j \in 1..WindowLen |-> [high |-> high, low |-> low, close |-> close]]
    /\ stoch_latest = <<>>
    /\ PlanIdle /\ InsightIdle /\ SnapshotIdle /\ AggregateIdle /\ BatchIdle /\ VolatilityIdle

Stochastic ==
    /\ stoch_latest = <<>>
    /\ stoch_latest' = <<stochastic_latest(window)>>
    /\ UNCHANGED <<window, plan_vars, insight_vars, snapshot_vars, aggregate_vars, batch_vars, volatility_vars>>

NextStochastic == Stochastic

SpecStochastic == InitStochastic /\ [][NextStochastic]_vars

InRange(cell) == IsNum(cell) => (cell.v >= 0 /\ cell.v <= 100 * FP)

\* C12: for positive prices with low <= close <= high and volumes >= 0,
\* wherever the value is defined 0 <= rsi_14 <= 100, 0 <= stoch_k <= 100,
\* 0 <= stoch_d <= 100 and vwap > 0.
C12_NaturalRanges ==
    /\ \A i \in 1..Len(indicators.rows) :
          /\ InRange(indicators.rows[i].rsi_14)
          /\ InRange(indicators.rows[i].stoch_k)
          /\ InRange(indicators.rows[i].stoch_d)
          /\ IsNum(indicators.rows[i].vwap) => indicators.rows[i].vwap.v > 0
    /\ \A i \in 1..Len(stoch_latest) :
          stoch_latest[i].raised = "no" =>
              /\ FLeq(LZeroDouble, stoch_latest[i].stoch_k[1])
              /\ FLeq(stoch_latest[i].stoch_k[1], Hundred)

\* the change of the running total at row i > 1, in volume units
ObvStep(i) == indicators.rows[i].obv.v - indicators.rows[i - 1].obv.v

\* C13: obv[0] = 0 whatever the first bar's volume; a later bar adds its
\* volume when the close rose and subtracts it when the close fell.
C13_ObvRunningTotal ==
    Enriched =>
        /\ indicators.rows[1].obv = Num(0)
        /\ \A i \in 2..Len(ohlcv) :
              /\ ohlcv[i].close > ohlcv[i - 1].close => ObvStep(i) = FP * ohlcv[i].volume
              /\ ohlcv[i].close < ohlcv[i - 1].close => ObvStep(i) = -FP * ohlcv[i].volume

\* C13 witness: a first bar with volume, then a rising and a falling bar.
C13_Witness ==
    /\ Enriched
    /\ ohlcv[1].volume > 0
    /\ \E i, j \in 2..Len(ohlcv) :
          /\ ohlcv[i].close > ohlcv[i - 1].close /\ ohlcv[i].volume > 0
          /\ ohlcv[j].close < ohlcv[j - 1].close /\ ohlcv[j].volume > 0

\* C19: a bar after the first whose close equals the previous close
\* subtracts its volume from the running total, like a falling bar.
C19_FlatBarSubtracts ==
    Enriched =>
        \A i \in 2..Len(ohlcv) :
            ohlcv[i].close = ohlcv[i - 1].close => ObvStep(i) = -FP * ohlcv[i].volume

\* C19 witness: a flat bar with volume has lowered the total.
C19_Witness ==
    /\ Enriched
    /\ \E i \in 2..Len(ohlcv) :
          /\ ohlcv[i].close = ohlcv[i - 1].close
          /\ ohlcv[i].volume > 0
          /\ ObvStep(i) < 0

\* C14: with_indicators has no look-ahead: the frame of a prefix has the
\* prefix's rows and equals the first rows of the frame of the longer
\* series; appending a bar changes no earlier row.  Each call serves the
\* previous call's series grown by one bar, so the previous frame is the
\* frame of the prefix.
C14_NoLookAhead ==
    [][ohlcv # <<>> =>
          /\ indicators.raised = "no" /\ Len(indicators.rows) = Len(ohlcv)
          /\ indicators'.raised = "no" /\ Len(indicators'.rows) = Len(ohlcv')
          /\ \A i \in 1..Len(indicators.rows) :
                indicators'.rows[i] = indicators.rows[i]]_vars

-----------------------------------------------------------------------------
(* The batch: app/platform.py build_market_insights                        *)

MaxUniverse == 3

\* head(8) of the market rows
TopAssets == 8

UniverseSymbols == <<"btc", "eth", "sol">>

\* the series the market data source serves for an asset, as bars
\* [kind, wick]: 15 rising bars, 15 bars up and down, 3 rising bars,
\* 2 bars without volume, 14 flat bars without a wick
Bars(n, kinds, wick) ==
    [i \in 1..n |-> [kind |-> CHOOSE k \in BarKinds : k.name = kinds[1 + (i % Len(kinds))],
                     wick |-> wick]]

SeriesShapes ==
    [rising |-> Bars(15, <<"up">>, 1),
     choppy |-> Bars(15, <<"up", "down">>, 1),
     short |-> Bars(3, <<"up">>, 1),
     quiet |-> Bars(2, <<"quiet">>, 1),
     flat |-> Bars(14, <<"flat">>, 0)]

RECURSIVE Grow(_, _, _)
Grow(bars, i, series) ==
    IF i > Len(bars) THEN series
    ELSE Grow(bars, i + 1, Append(series, NextBar(series, bars[i].kind, bars[i].wick)))

\* get_ohlcv for an asset of the given shape
get_ohlcv(shape) == Grow(SeriesShapes[shape], 1, <<>>)

\* build_asset_snapshot: the summary, or the exception that ends the call
build_asset_snapshot(symbol, shape) ==
    LET ind == with_indicators(get_ohlcv(shape))
        suite == CHOOSE r \in run_bot_suite(symbol, ind.rows) : TRUE
    IN  IF ind.raised # "no" THEN [raised |-> ind.raised, summary |-> <<>>]
        ELSE IF suite.raised # "no" THEN [raised |-> suite.raised, summary |-> <<>>]
        ELSE [raised |-> "no", summary |-> <<aggregate_symbol_score(suite.frame)>>]

IsDescendingByFloat(frame, col) ==
    \A i \in 1..(Len(frame) - 1) : DLeq(frame[i + 1].row[col], frame[i].row[col])

\* sort_values(col, ascending=False) on a float column, default kind
SortValuesByFloat(frame, col) ==
    { [i \in 1..Len(frame) |-> frame[p[i]]] : p \in
        { q \in Permutations(1..Len(frame)) :
            IsDescendingByFloat([i \in 1..Len(frame) |-> frame[q[i]]], col) } }

\* the feature rows of the universe, and the sentiment of the fallback
UniverseTrend == [btc |-> D(164, 2), eth |-> D(0, 0), sol |-> D(-60, 0)]

FeatureRowOf(symbol) ==
    [symbol |-> symbol, trend_strength |-> UniverseTrend[symbol],
     volume_to_mcap |-> D(25, 3), volatility_score |-> D(8, 0)]

NeutralSentiment == D(50, 0)

\* the loop over the top assets: the first exception ends the whole call
build_market_insights(market) ==
    LET top == HeadRows(market, TopAssets)
        snaps == [i \in 1..Len(top) |-> build_asset_snapshot(Upper(top[i].symbol), top[i].shape)]
        rows == [i \in 1..Len(top) |->
                    [symbol |-> Upper(top[i].symbol),
                     aggregate_score |-> DRound(snaps[i].summary[1].aggregate_score, 2),
                     buy_votes |-> snaps[i].summary[1].buy_votes]]
        insights == [i \in 1..Len(market) |->
                        generate_ai_insight(FeatureRowOf(market[i].symbol), NeutralSentiment)]
    IN  IF \E i \in 1..Len(top) : snaps[i].raised # "no"
        THEN {[raised |-> snaps[CHOOSE i \in 1..Len(top) :
                                   /\ snaps[i].raised # "no"
                                   /\ \A j \in 1..(i - 1) : snaps[j].raised = "no"].raised,
               ai_insights |-> <<>>, bot_heatmap |-> <<>>]}
        ELSE {[raised |-> "no", ai_insights |-> a, bot_heatmap |-> h] :
                 a \in SortValuesByFloat(Framed(insights), "score"),
                 h \in SortValuesByFloat(Framed(rows), "aggregate_score")}

InitBatch ==
    /\ \E n \in 1..MaxUniverse : \E shapes \in [1..n -> DOMAIN SeriesShapes] :
          universe = [i \in 1..n |-> [symbol |-> UniverseSymbols[1 + ((i - 1) % Len(UniverseSymbols))],
                                   shape |-> shapes[i]]]
    /\ batch = <<>>
    /\ PlanIdle /\ InsightIdle /\ SnapshotIdle /\ AggregateIdle /\ StochasticIdle /\ VolatilityIdle

BuildMarketInsights ==
    /\ batch = <<>>
    /\ \E result \in build_market_insights(universe) : batch' = <<result>>
    /\ UNCHANGED <<universe, plan_vars, insight_vars, snapshot_vars, aggregate_vars, stochastic_vars, volatility_vars>>

NextBatch == BuildMarketInsights

SpecBatch == InitBatch /\ [][NextBatch]_vars

Faulting(i) == build_asset_snapshot(Upper(universe[i].symbol), universe[i].shape).raised # "no"

\* C15: in a batch a fault while evaluating one symbol does not escape, and
\* the batch still returns a result for every symbol that does not fault.
C15_FaultsContained ==
    batch # <<>> =>
        /\ batch[1].raised = "no"
        /\ \A i \in 1..Len(universe) :
              ~Faulting(i) =>
                  \E j \in 1..Len(batch[1].bot_heatmap) :
                      batch[1].bot_heatmap[j].row.symbol = Upper(universe[i].symbol)

-----------------------------------------------------------------------------
(* The volatility score: app/data_sources.py _compute_features._volatility *)

MaxPath == 4

PathPrices == {99, 100, 110}

\* returns are held in basis points (1e-4), scores in hundredths
BasisPoints == 10000

\* the sparkline cell: None, a dict without "price", or a dict with a list
PriceWraps ==
    {[wrap |-> "None", has_price |-> FALSE, price |-> <<>>],
     [wrap |-> "dict", has_price |-> FALSE, price |-> <<>>]}
    \cup {[wrap |-> "dict", has_price |-> TRUE, price |-> path] :
             path \in SeqsUpTo(PathPrices, MaxPath)}

\* (prices_wrap or {}).get("price", [])
PricesOf(cell) ==
    IF cell.wrap = "None" \/ ~cell.has_price THEN <<>> ELSE cell.price

\* prices.pct_change().dropna(): the first row is dropped
PctChange(prices) ==
    [i \in 1..(Len(prices) - 1) |->
        ((prices[i + 1] - prices[i]) * BasisPoints) \div prices[i]]

\* the sum of squared deviations from the mean, times the count
SquaresTimesCount(returns) ==
    LET n == Len(returns)
        total == SumRange(returns, 1, n)
    IN  SumRange([i \in 1..n |-> (n * returns[i] - total) * (n * returns[i] - total)], 1, n) \div n

\* mutant: the deviation is not scaled by sqrt(returns.size)
volatility_Unscaled(cell) ==
    LET prices == PricesOf(cell)
        returns == PctChange(prices)
    IN  IF Len(prices) < 3 THEN 0
        ELSE IF returns = <<>> THEN 0
        ELSE ISqrt(SquaresTimesCount(returns) \div (Len(returns) * (Len(returns) - 1)))

\* returns.std() * returns.size ** 0.5 * 100, std with ddof = 1:
\* sqrt(sum of squares / (n - 1)) * sqrt(n) * 100, in hundredths
volatility(cell) ==
    LET prices == PricesOf(cell)
        returns == PctChange(prices)
    IN  IF Len(prices) < 3 THEN 0
        ELSE IF returns = <<>> THEN 0
        ELSE ISqrt(SquaresTimesCount(returns) \div (Len(returns) - 1))

InitVolatility ==
    /\ prices_wrap \in PriceWraps
    /\ volatility_score = <<>>
    /\ PlanIdle /\ InsightIdle /\ SnapshotIdle /\ AggregateIdle /\ StochasticIdle /\ BatchIdle

Volatility ==
    /\ volatility_score = <<>>
    /\ volatility_score' = <<volatility(prices_wrap)>>
    /\ UNCHANGED <<prices_wrap, plan_vars, insight_vars, snapshot_vars, aggregate_vars, stochastic_vars, batch_vars>>

NextVolatility == Volatility

SpecVolatility == InitVolatility /\ [][NextVolatility]_vars

\* the path the sparkline cell holds; none when the cell or its list is missing
PathLength ==
    IF prices_wrap.wrap = "dict" /\ prices_wrap.has_price THEN Len(prices_wrap.price) ELSE 0

\* C16: the volatility score is exactly 0.0 for a path of fewer than 3
\* points, an empty or missing path included; for the path [100, 110, 99]
\* it is std-dev(returns) * sqrt(count) * 100 over the returns +10% and
\* -10%, which is not zero: sqrt((0.1^2 + 0.1^2) / 1) * sqrt(2) * 100 = 20.
C16_VolatilityScore ==
    volatility_score # <<>> =>
        /\ PathLength < 3 => volatility_score[1] = 0
        /\ (PathLength = 3 /\ prices_wrap.price = <<100, 110, 99>>) =>
              /\ volatility_score[1] # 0
              /\ volatility_score[1] * volatility_score[1]
                    = 2 * (1000 * 1000 + 1000 * 1000)

\* C16 witness: the three-point path has been scored 20.00.
C16_Witness ==
    /\ prices_wrap.price = <<100, 110, 99>>
    /\ volatility_score = <<2000>>

-----------------------------------------------------------------------------
(* The order of run_bot_suite's signals: app/bots.py run_bot_suite *)

\* C17: for every non-empty enriched series run_bot_suite returns exactly
\* three signals, one per bot, listed in bot evaluation order (TrendBot,
\* MeanReversionBot, BreakoutBot) whatever the scores: row i of the frame is
\* the signal bot i returned.
C17_EvaluationOrder ==
    Enriched =>
        /\ bot_signals.raised = "no"
        /\ Len(bot_signals.frame) = 3
        /\ \A i \in 1..3 :
              /\ bot_signals.frame[i].index = i - 1
              /\ bot_signals.frame[i].row = evals[i].signal[1]

-----------------------------------------------------------------------------
(* The risk carried by a plan: app/bot.py build_order_plan                 *)

\* the preset has a stop strictly between 0 and 100 percent and a target
StopAndTargetSet ==
    /\ DLess(D(0, 0), Call.preset.stop_loss_pct)
    /\ DLess(Call.preset.stop_loss_pct, D(100, 0))
    /\ DLess(D(0, 0), Call.preset.take_profit_pct)

EntryOf(j) == PriceLookup(market_df, orders[j].row.symbol)

\* entry - stop of the j-th order, before rounding
StopDistance(j) == DSub(EntryOf(j), ExactStop(EntryOf(j)))

\* what the j-th order loses when its stop is hit
OrderLoss(j) == DMul(orders[j].row.position_size_units, StopDistance(j))

\* half a unit of the 4th decimal of the size, times the stop distance
SizeRounding(j) == DMul(StopDistance(j), D(5, 5))

RECURSIVE LossUpTo(_)
LossUpTo(j) == IF j = 0 THEN D(0, 0) ELSE DAdd(LossUpTo(j - 1), OrderLoss(j))

WidestRounding ==
    IF orders = <<>> THEN D(0, 0)
    ELSE SizeRounding(CHOOSE j \in 1..Len(orders) :
             \A i \in 1..Len(orders) : DLeq(SizeRounding(i), SizeRounding(j)))

\* the total loss is at most max_positions * risk_per_trade percent of the
\* account, up to the rounding of the sizes
TotalLossBounded ==
    DLeq(DSub(LossUpTo(Len(orders)), DMul(D(Call.max_positions, 0), ExactRisk)),
         DMul(D(Len(orders), 0), WidestRounding))

\* C18 as stated: for a preset with 0 < stop_loss_pct < 100 and
\* take_profit_pct > 0 every emitted order has stop_loss < entry <
\* take_profit, and its size times (entry - stop) equals account_size *
\* risk_per_trade / 100 (up to the rounding of the size), so the total loss
\* is at most max_positions * risk_per_trade percent of the account.
C18_RiskPerOrder ==
    (Planned /\ StopAndTargetSet) =>
        /\ \A j \in 1..Len(orders) :
              LET o == orders[j].row IN
              /\ DLess(o.stop_loss, o.entry)
              /\ DLess(o.entry, o.take_profit)
              /\ Within(OrderLoss(j), ExactRisk, SizeRounding(j))
        /\ TotalLossBounded

\* C18 amended: before rounding stop < entry < target, and the emitted
\* 6-decimal values are in the order stop_loss <= entry <= take_profit; the
\* size times max(entry - stop, 1e-8) equals the risk amount, so the size
\* times (entry - stop) is at most the risk amount, and equals it when
\* entry - stop >= 1e-8 (all up to the rounding of the size); the total loss
\* is at most max_positions * risk_per_trade percent of the account.
C18_RiskBound ==
    (Planned /\ StopAndTargetSet) =>
        /\ \A j \in 1..Len(orders) :
              LET o == orders[j].row
                  e == EntryOf(j)
              IN  /\ DLess(ExactStop(e), e)
                  /\ DLess(e, ExactTarget(e))
                  /\ DLeq(o.stop_loss, o.entry)
                  /\ DLeq(o.entry, o.take_profit)
                  /\ Within(DMul(o.position_size_units, ExactUnitRisk(e)), ExactRisk,
                            DMul(ExactUnitRisk(e), D(5, 5)))
                  /\ DLeq(DSub(OrderLoss(j), ExactRisk), SizeRounding(j))
                  /\ DLeq(Epsilon, StopDistance(j))
                        => Within(OrderLoss(j), ExactRisk, SizeRounding(j))
        /\ Len(orders) <= Call.max_positions
        /\ TotalLossBounded

\* C18 witness: an order has been emitted whose stop distance is under the
\* 1e-8 floor, so that it risks less than the risk amount, and whose
\* emitted stop_loss and entry coincide.
C18_Witness ==
    /\ Planned
    /\ StopAndTargetSet
    /\ \E j \in 1..Len(orders) :
          /\ DLess(StopDistance(j), Epsilon)
          /\ DLess(OrderLoss(j), ExactRisk)
          /\ orders[j].row.stop_loss = orders[j].row.entry

=============================================================================
